---------------------------- MODULE Spec2Model ----------------------------
(***************************************************************************)
(* Model of python-backend/main.py: the module-level load of the profile   *)
(* tables and the request handlers that read them (predict_remaining,      *)
(* get_triage_and_streaming_prediction, get_cumulative_arrival_profile,    *)
(* get_hourly_arrival_profile).                                            *)
(*                                                                         *)
(* Real numbers (CSV cells, quotients) are exact rationals <<n, d>> with   *)
(* d > 0; <<0, 0>> is NaN and <<1, 0>> is +inf, the two non-finite values  *)
(* numpy arithmetic can produce here.  Category labels are sequences of    *)
(* one-character strings so that str.split can be computed.                *)
(***************************************************************************)
EXTENDS Integers, Sequences, FiniteSets, TLC

VARIABLES
    pc,                       \* "init" | "serving" | "crashed"
    fs,                       \* the files main.py reads at import time
    arrival_profile_df,       \* module globals, main.py:39-58
    triage_profile_df,
    hourly_profile_df,
    holidays_dict,
    streaming_model,
    streaming_model_columns,
    resp                      \* the last request and the response it got

globals == <<arrival_profile_df, triage_profile_df, hourly_profile_df,
             holidays_dict, streaming_model, streaming_model_columns>>

vars == <<pc, fs, arrival_profile_df, triage_profile_df, hourly_profile_df,
          holidays_dict, streaming_model, streaming_model_columns, resp>>

(***************************************************************************)
(* Bounds of the model.                                                    *)
(***************************************************************************)
MaxArrivals == 3

ArrivalInputs == (0 - 1) .. MaxArrivals

HoursOfDay == 0 .. 23

WeekdayNums == 0 .. 6

HourInputs == (0 - 1) .. 24

(***************************************************************************)
(* Numbers.                                                                *)
(***************************************************************************)
NaN == <<0, 0>>

Inf == <<1, 0>>

IsNaN(x) == x[2] = 0 /\ x[1] = 0

IsInf(x) == x[2] = 0 /\ x[1] # 0

IsFinite(x) == x[2] > 0

\* x < y for finite rationals
Less(x, y) == x[1] * y[2] < y[1] * x[2]

\* Python int / numpy float64: a zero divisor gives inf (a > 0), no exception
TrueDiv(a, p) ==
    IF IsNaN(p) THEN NaN
    ELSE IF p[1] = 0 THEN (IF a = 0 THEN NaN ELSE Inf)
    ELSE IF p[1] > 0 THEN <<a * p[2], p[1]>>
    ELSE <<0 - (a * p[2]), 0 - p[1]>>

\* float64 - int
Minus(x, a) ==
    IF IsFinite(x) THEN <<x[1] - a * x[2], x[2]>> ELSE x

\* round(x) with one argument: nearest integer, ties to the even one
Round(x) ==
    LET q == x[1] \div x[2]
        r == x[1] % x[2]
    IN  IF 2 * r < x[2] THEN q
        ELSE IF 2 * r > x[2] THEN q + 1
        ELSE IF q % 2 = 0 THEN q ELSE q + 1

(***************************************************************************)
(* Values of the module globals.                                           *)
(***************************************************************************)
None == [tag |-> "None"]

Unbound == [tag |-> "Unbound"]

Loaded == [tag |-> "Loaded"]

Empty == [tag |-> "Empty"]

DataFrame(cols, idx, cells) ==
    [tag |-> "DataFrame", columns |-> cols, index |-> idx, cell |-> cells]

Range(s) == {s[i] : i \in 1 .. Len(s)}


(***************************************************************************)
(* The files read at import time, in the order main.py reads them.         *)
(***************************************************************************)
Files == <<"arrival_profile.csv", "triage_by_hour_profile.csv",
           "hourly_arrival_profile.csv", "holidays.json",
           "streaming_model.joblib", "X_train_columns.json">>

FileStatus == {"ok", "missing", "unparseable"}

\* datetime.weekday(): 0 is Monday
WeekdayName(n) ==
    <<"Monday", "Tuesday", "Wednesday", "Thursday", "Friday", "Saturday",
      "Sunday">>[n + 1]

MondayFirst == [i \in 1 .. 7 |-> WeekdayName(i - 1)]

SundayFirst == <<"Sunday">> \o SubSeq(MondayFirst, 1, 6)

SixDays == SubSeq(MondayFirst, 1, 6)

\* cumulative fraction of the day's arrivals by the end of hour h: in (0, 1],
\* non-decreasing in h, 1 at hour 23, different on different weekdays
CumulativeFraction(h, day) ==
    LET k == CHOOSE n \in WeekdayNums : WeekdayName(n) = day
    IN  <<h + 1 + k, 24 + k>>

\* contents arrival_profile.csv can have: well formed, or with a column
\* layout, a set of hour rows or an early-hour row that breaks the invariant
ArrivalTables ==
    { DataFrame(cols, idx,
                [c \in idx \X Range(cols) |->
                    IF c[1] = 1 /\ defect = "zero" THEN <<0, 1>>
                    ELSE IF c[1] = 1 /\ defect = "empty" THEN NaN
                    ELSE CumulativeFraction(c[1], c[2])]) :
        cols \in {MondayFirst, SundayFirst, SixDays},
        idx \in {HoursOfDay, HoursOfDay \ {9}, 0 .. 8},
        defect \in {"none", "zero", "empty"} }

WellFormedArrivalTable ==
    DataFrame(MondayFirst, HoursOfDay,
              [c \in HoursOfDay \X Range(MondayFirst) |->
                  CumulativeFraction(c[1], c[2])])

Label(prefix, suffix) == prefix \o <<"_">> \o suffix

TriageColumnLayouts ==
    { <<Label(<<"c", "a", "t">>, <<"1">>), Label(<<"c", "a", "t">>, <<"2">>),
        Label(<<"c", "a", "t">>, <<"3">>)>>,
      <<Label(<<"c", "a", "t">>, <<"3">>), Label(<<"c", "a", "t">>, <<"2">>),
        Label(<<"c", "a", "t">>, <<"1">>)>>,
      <<Label(<<"t">>, Label(<<"c">>, <<"1">>)), <<"u", "r", "g">>,
        Label(<<"c", "a", "t">>, <<"x">>)>> }

\* rows of weights by column position; the first is the row of the spec's
\* example, the others have ties and missing values
TriageRows ==
    << <<<<1, 10>>, <<6, 10>>, <<3, 10>>>>,
       <<<<5, 10>>, <<5, 10>>, <<2, 10>>>>,
       <<<<2, 10>>, <<7, 10>>, <<7, 10>>>>,
       <<NaN, <<4, 10>>, <<6, 10>>>>,
       <<<<3, 10>>, <<3, 10>>, <<3, 10>>>>,
       <<NaN, NaN, NaN>>,
       <<<<0, 10>>, NaN, <<9, 10>>>> >>

TriageTableOf(cols, idx, shift) ==
    DataFrame(cols, idx,
              [c \in idx \X Range(cols) |->
                  LET row == TriageRows[((c[1] + shift) % Len(TriageRows)) + 1]
                      pos == CHOOSE i \in 1 .. Len(cols) : cols[i] = c[2]
                  IN  row[pos]])

TriageTables ==
    { TriageTableOf(cols, idx, shift) :
        cols \in TriageColumnLayouts,
        idx \in {HoursOfDay, 0 .. 20},
        shift \in {0, 5} }

WellFormedTriageTable ==
    TriageTableOf(CHOOSE cols \in TriageColumnLayouts :
                      cols[1] = Label(<<"c", "a", "t">>, <<"1">>),
                  HoursOfDay, 0)

HourlyTable ==
    DataFrame(MondayFirst, HoursOfDay,
              [c \in HoursOfDay \X Range(MondayFirst) |-> <<1, 24>>])

NoBody == [tag |-> "NoBody"]

NotRead == 0 - 1

NoRequest ==
    [op |-> "none", arrivals_so_far |-> 0, hour_of_day |-> 0,
     current_hour |-> NotRead, weekday |-> NotRead,
     status |-> 0, detail |-> "", exception |-> "",
     estimated_total_for_today |-> 0, remaining_arrivals_prediction |-> 0,
     triage_category |-> <<>>, department |-> "", body |-> NoBody]

(***************************************************************************)
(* Before main.py is imported: nothing is bound; the files are on disk.    *)
(***************************************************************************)
Init ==
    /\ pc = "init"
    /\ fs \in
         { [status |-> [i \in 1 .. Len(Files) |-> "ok"],
            arrival |-> a, triage |-> WellFormedTriageTable] :
              a \in ArrivalTables }
         \cup
         { [status |-> [i \in 1 .. Len(Files) |-> "ok"],
            arrival |-> WellFormedArrivalTable, triage |-> t] :
              t \in TriageTables }
         \cup
         { [status |-> st, arrival |-> WellFormedArrivalTable,
            triage |-> WellFormedTriageTable] :
              st \in [1 .. Len(Files) -> FileStatus] }
    /\ arrival_profile_df = Unbound
    /\ triage_profile_df = Unbound
    /\ hourly_profile_df = Unbound
    /\ holidays_dict = Unbound
    /\ streaming_model = Unbound
    /\ streaming_model_columns = Unbound
    /\ resp = NoRequest

\* what reading file i binds its global to when the read succeeds
LoadedValue(i) ==
    IF i = 1 THEN fs.arrival
    ELSE IF i = 2 THEN fs.triage
    ELSE IF i = 3 THEN HourlyTable
    ELSE Loaded

\* the first file, in reading order, that cannot be read (0: none)
FirstFailure ==
    IF \A i \in 1 .. Len(Files) : fs.status[i] = "ok" THEN 0
    ELSE CHOOSE i \in 1 .. Len(Files) :
            /\ fs.status[i] # "ok"
            /\ \A j \in 1 .. (i - 1) : fs.status[j] = "ok"

\* the try block of main.py:38-58.  Only FileNotFoundError is caught: every
\* global is then rebound to None (or to an empty dict/list).  Any other
\* exception leaves the import, and so the process, dead.
Startup ==
    /\ pc = "init"
    /\ LET f == FirstFailure
           after(i) ==
               IF f = 0 THEN LoadedValue(i)
               ELSE IF fs.status[f] = "missing" THEN None
               ELSE IF i < f THEN LoadedValue(i) ELSE Unbound
       IN  /\ pc' = IF f # 0 /\ fs.status[f] = "unparseable"
                    THEN "crashed" ELSE "serving"
           /\ arrival_profile_df' = after(1)
           /\ triage_profile_df' = after(2)
           /\ hourly_profile_df' = after(3)
           /\ holidays_dict' = IF after(4) = None THEN Empty ELSE after(4)
           /\ streaming_model' = after(5)
           /\ streaming_model_columns' =
                  IF after(6) = None THEN Empty ELSE after(6)
    /\ UNCHANGED <<fs, resp>>

(***************************************************************************)
(* Responses.  An HTTPException carries its status and detail; an          *)
(* exception no handler catches becomes the framework's plain 500.         *)
(***************************************************************************)
Request(op, arrivals, hour_of_day) ==
    [NoRequest EXCEPT !.op = op, !.arrivals_so_far = arrivals,
                      !.hour_of_day = hour_of_day]

HTTPException(req, status, detail, exc) ==
    [req EXCEPT !.status = status, !.detail = detail, !.exception = exc]

Unhandled(req, exc) ==
    [req EXCEPT !.status = 500, !.detail = "Internal Server Error",
                !.exception = exc]

\* the error reports of the handlers, by the names the specification gives
\* them
InsufficientDataError(r) ==
    r.status = 400
    /\ r.detail = "Not enough data for today to make a prediction."

ProfileUnavailableError(r) ==
    r.status = 500
    /\ r.detail \in {"Arrival profile is not loaded.",
                     "A required model/profile is not loaded."}

ProfileLookupError(r) ==
    r.status >= 400 /\ r.detail = "Could not find profile data for hour"

ModelPredictionFailed(r) ==
    r.status = 500 /\ r.detail = "Model prediction failed"

\* the quotient taken the wrong way round: arrivals times the fraction
EstimatedTotalTodayAsProduct(arrivals, percentage_so_far) ==
    IF IsFinite(percentage_so_far)
    THEN <<arrivals * percentage_so_far[1], percentage_so_far[2]>>
    ELSE percentage_so_far

\* estimated_total_today = data.arrivals_so_far / percentage_so_far
EstimatedTotalToday(arrivals, percentage_so_far) ==
    TrueDiv(arrivals, percentage_so_far)

\* remaining_arrivals = estimated_total_today - data.arrivals_so_far
RemainingArrivals(estimated_total_today, arrivals) ==
    Minus(estimated_total_today, arrivals)

\* current_day_name = day_names[day_of_week_num]: the column at the
\* weekday's position, whatever it is labelled
CurrentDayName(df, day_of_week_num) == df.columns[day_of_week_num + 1]

\* predict_remaining(org_id, data) called when the clock reads current_hour
\* on weekday day_of_week_num
PredictRemainingResponse(df, arrivals, current_hour, day_of_week_num) ==
    LET req == Request("predict_remaining", arrivals, 0)
        clocked == [req EXCEPT !.current_hour = current_hour,
                               !.weekday = day_of_week_num]
        lookup_hour == current_hour - 1
    IN  IF df = None
        THEN HTTPException(req, 500, "Arrival profile is not loaded.", "")
        ELSE IF day_of_week_num + 1 > Len(df.columns)
        THEN Unhandled(clocked, "IndexError")
        ELSE IF arrivals <= 0 \/ lookup_hour < 0
        THEN HTTPException(clocked, 400,
                 "Not enough data for today to make a prediction.", "")
        ELSE IF lookup_hour \notin df.index
        THEN HTTPException(clocked, 400,
                 "Could not find profile data for hour", "KeyError")
        ELSE
          LET percentage_so_far ==
                  df.cell[<<lookup_hour, CurrentDayName(df, day_of_week_num)>>]
              estimated_total_today ==
                  EstimatedTotalToday(arrivals, percentage_so_far)
              remaining_arrivals ==
                  RemainingArrivals(estimated_total_today, arrivals)
          IN  IF IsNaN(estimated_total_today)
              THEN Unhandled(clocked, "ValueError")
              ELSE IF IsInf(estimated_total_today)
              THEN Unhandled(clocked, "OverflowError")
              ELSE [clocked EXCEPT
                      !.status = 200,
                      !.estimated_total_for_today =
                          Round(estimated_total_today),
                      !.remaining_arrivals_prediction =
                          Round(remaining_arrivals)]

\* a handler that drops the table when a lookup fails
PredictRemainingDroppingTable ==
    /\ pc = "serving"
    /\ resp = NoRequest
    /\ \E arrivals \in ArrivalInputs, current_hour \in HoursOfDay,
          day_of_week_num \in WeekdayNums :
          resp' = PredictRemainingResponse(arrival_profile_df, arrivals,
                                           current_hour, day_of_week_num)
    /\ arrival_profile_df' =
           IF resp'.exception = "KeyError" THEN None ELSE arrival_profile_df
    /\ UNCHANGED <<pc, fs, triage_profile_df, hourly_profile_df,
                   holidays_dict, streaming_model, streaming_model_columns>>

PredictRemaining ==
    /\ pc = "serving"
    /\ resp = NoRequest
    /\ \E arrivals \in ArrivalInputs, current_hour \in HoursOfDay,
          day_of_week_num \in WeekdayNums :
          resp' = PredictRemainingResponse(arrival_profile_df, arrivals,
                                           current_hour, day_of_week_num)
    /\ UNCHANGED <<pc, fs, globals>>

\* an arg-max that keeps the last of the tied columns
IdxMaxLastOccurrence(df, hour) ==
    LET n == Len(df.columns)
        val(i) == df.cell[<<hour, df.columns[i]>>]
        isMax(i) ==
            /\ ~IsNaN(val(i))
            /\ \A j \in 1 .. n : IsNaN(val(j)) \/ ~Less(val(i), val(j))
    IN  IF \A i \in 1 .. n : IsNaN(val(i)) THEN <<>>
        ELSE df.columns[CHOOSE i \in 1 .. n :
                            isMax(i) /\ \A j \in (i + 1) .. n : ~isMax(j)]

\* Series.idxmax(): the label of the first occurrence of the largest value,
\* missing values skipped; <<>> stands for the result on an all-missing row
\* (nan, or a ValueError, depending on the pandas version)
IdxMax(df, hour) ==
    LET n == Len(df.columns)
        val(i) == df.cell[<<hour, df.columns[i]>>]
        isMax(i) ==
            /\ ~IsNaN(val(i))
            /\ \A j \in 1 .. n : IsNaN(val(j)) \/ ~Less(val(i), val(j))
    IN  IF \A i \in 1 .. n : IsNaN(val(i)) THEN <<>>
        ELSE df.columns[CHOOSE i \in 1 .. n :
                            isMax(i) /\ \A j \in 1 .. (i - 1) : ~isMax(j)]

\* label.split('_')[-1]: what follows the last '_', the whole label if none
LastToken(label) ==
    LET cuts == {i \in 1 .. Len(label) : label[i] = "_"}
    IN  IF cuts = {} THEN label
        ELSE SubSeq(label,
                    (CHOOSE i \in cuts : \A j \in cuts : j <= i) + 1,
                    Len(label))

\* get_triage_and_streaming_prediction(data); classifier is what
\* streaming_model.predict does with the encoded features: a department label
\* or an exception
TriageResponse(df, model, hour_of_day, classifier) ==
    LET req == Request("assess_risk", 0, hour_of_day)
        failed(exc) ==
            HTTPException(req, 500, "Model prediction failed", exc)
    IN  IF df = None \/ model = None
        THEN HTTPException(req, 500,
                 "A required model/profile is not loaded.", "")
        ELSE IF hour_of_day \notin df.index THEN failed("KeyError")
        ELSE IF IdxMax(df, hour_of_day) = <<>> THEN failed("AttributeError")
        ELSE IF classifier = "raises" THEN failed("ValueError")
        ELSE [req EXCEPT
                !.status = 200,
                !.triage_category = LastToken(IdxMax(df, hour_of_day)),
                !.department = classifier]

GetTriageAndStreamingPrediction ==
    /\ pc = "serving"
    /\ resp = NoRequest
    /\ \E hour_of_day \in HourInputs, classifier \in {"Resus", "raises"} :
          resp' = TriageResponse(triage_profile_df, streaming_model,
                                 hour_of_day, classifier)
    /\ UNCHANGED <<pc, fs, globals>>

\* DataFrame.to_dict() of a loaded table, a 500 otherwise
ProfileResponse(op, df, detail) ==
    LET req == Request(op, 0, 0)
    IN  IF df = None THEN HTTPException(req, 500, detail, "")
        ELSE [req EXCEPT !.status = 200, !.body = df]

GetCumulativeArrivalProfile ==
    /\ pc = "serving"
    /\ resp = NoRequest
    /\ resp' = ProfileResponse("cumulative_arrival_profile",
                   arrival_profile_df,
                   "Arrival profile (arrival_profile.csv) is not loaded.")
    /\ UNCHANGED <<pc, fs, globals>>

GetHourlyArrivalProfile ==
    /\ pc = "serving"
    /\ resp = NoRequest
    /\ resp' = ProfileResponse("hourly_arrival_profile", hourly_profile_df,
                   "Hourly arrival profile (hourly_arrival_profile.csv) is not loaded.")
    /\ UNCHANGED <<pc, fs, globals>>

\* the handler has returned or raised: the framework sends the response and
\* the worker takes the next request
SendResponse ==
    /\ pc = "serving"
    /\ resp # NoRequest
    /\ resp' = NoRequest
    /\ UNCHANGED <<pc, fs, globals>>

Next ==
    \/ Startup
    \/ SendResponse
    \/ PredictRemaining
    \/ GetTriageAndStreamingPrediction
    \/ GetCumulativeArrivalProfile
    \/ GetHourlyArrivalProfile

Spec == Init /\ [][Next]_vars

(***************************************************************************)
(* Properties.                                                             *)
(***************************************************************************)
\* a predict_remaining call answered while the arrival profile is loaded
PredictCall ==
    /\ pc = "serving"
    /\ resp.op = "predict_remaining"
    /\ arrival_profile_df # None

\* the call passed the gate and its cell (row current_hour - 1, the column
\* the handler selects) is in the table
CellPresent ==
    /\ PredictCall
    /\ resp.arrivals_so_far > 0
    /\ resp.current_hour >= 1
    /\ resp.weekday + 1 <= Len(arrival_profile_df.columns)
    /\ (resp.current_hour - 1) \in arrival_profile_df.index

UsedCell ==
    arrival_profile_df.cell[<<resp.current_hour - 1,
                              arrival_profile_df.columns[resp.weekday + 1]>>]

\* C1: with the arrival profile loaded, every predict_remaining call with
\* arrivals_so_far <= 0, and every call made at current_hour = 0, fails with
\* InsufficientDataError, whatever the table holds.
C1_GateAlwaysInsufficientData ==
    (PredictCall /\ (resp.arrivals_so_far <= 0 \/ resp.current_hour = 0))
        => InsufficientDataError(resp)

InUnitInterval(x) == IsFinite(x) /\ x[1] > 0 /\ x[1] <= x[2]

C2_Case == CellPresent /\ InUnitInterval(UsedCell)

\* arrivals_so_far / percentage_so_far lies exactly halfway between two
\* integers
C2_QuotientIsHalfway ==
    LET twice == 2 * resp.arrivals_so_far * UsedCell[2]
    IN  twice % UsedCell[1] = 0 /\ (twice \div UsedCell[1]) % 2 = 1

\* C2 as stated: for arrivals_so_far > 0, lookup_hour in 0..22 and a cell in
\* (0,1] the call succeeds with estimated_total_for_today >= arrivals_so_far
\* and remaining_arrivals_prediction = estimated_total_for_today -
\* arrivals_so_far.
C2_RemainingIsTotalMinusArrivals ==
    C2_Case =>
        /\ resp.status = 200
        /\ resp.estimated_total_for_today >= resp.arrivals_so_far
        /\ resp.remaining_arrivals_prediction =
               resp.estimated_total_for_today - resp.arrivals_so_far

\* C2 amended: the call succeeds with estimated_total_for_today >=
\* arrivals_so_far; remaining_arrivals_prediction differs from
\* estimated_total_for_today - arrivals_so_far by at most 1, and differs
\* exactly when arrivals_so_far is odd and the unrounded quotient is halfway
\* between two integers (each value is rounded on its own, ties to even).
C2_RemainingWithinOneOfDifference ==
    C2_Case =>
        LET diff == resp.remaining_arrivals_prediction
                    - (resp.estimated_total_for_today - resp.arrivals_so_far)
        IN  /\ resp.status = 200
            /\ resp.estimated_total_for_today >= resp.arrivals_so_far
            /\ diff \in {0 - 1, 0, 1}
            /\ diff # 0 <=>
                   (resp.arrivals_so_far % 2 = 1 /\ C2_QuotientIsHalfway)

C2_Witness ==
    /\ C2_Case
    /\ resp.status = 200
    /\ resp.remaining_arrivals_prediction #
           resp.estimated_total_for_today - resp.arrivals_so_far

\* C3: a call that passes the gate and finds a cell equal to 0 fails with
\* ProfileLookupError and with no other kind of error.
C3_ZeroCellIsLookupError ==
    (CellPresent /\ IsFinite(UsedCell) /\ UsedCell[1] = 0)
        => ProfileLookupError(resp)

\* C4: a call that passes the gate and whose cell is absent (no hour row, no
\* weekday column, or an empty cell) fails with ProfileLookupError, reported
\* as a server error.
C4_AbsentCellIsServerLookupError ==
    ( /\ PredictCall
      /\ resp.arrivals_so_far > 0
      /\ resp.current_hour >= 1
      /\ \/ ~CellPresent
         \/ IsNaN(UsedCell) )
        => (ProfileLookupError(resp) /\ resp.status >= 500)

\* C5: when arrival_profile.csv or triage_by_hour_profile.csv is missing or
\* unparseable the process comes up with that table unavailable, and every
\* call of the dependent operation fails with ProfileUnavailableError.
C5_BadSourceServesUnavailable ==
    (pc # "init" /\ (fs.status[1] # "ok" \/ fs.status[2] # "ok"))
        => /\ pc = "serving"
           /\ fs.status[1] # "ok" => arrival_profile_df = None
           /\ fs.status[2] # "ok" => triage_profile_df = None
           /\ (fs.status[1] # "ok" /\ resp.op = "predict_remaining")
                  => ProfileUnavailableError(resp)
           /\ (fs.status[2] # "ok" /\ resp.op = "assess_risk")
                  => ProfileUnavailableError(resp)

\* C6: once the process serves, no endpoint call changes arrival_profile_df,
\* triage_profile_df or hourly_profile_df, loaded or not, and the cumulative
\* profile endpoint returns the cells that were loaded at startup.
C6_TablesNeverChange ==
    /\ [][pc = "serving" =>
             /\ arrival_profile_df' = arrival_profile_df
             /\ triage_profile_df' = triage_profile_df
             /\ hourly_profile_df' = hourly_profile_df]_vars
    /\ [](pc = "serving" =>
             /\ fs.status[1] # "ok" => arrival_profile_df = None
             /\ (resp.op = "cumulative_arrival_profile" /\ resp.status = 200)
                    => resp.body = fs.arrival)

C6_Witness ==
    /\ pc = "serving"
    /\ resp.op = "predict_remaining"
    /\ resp.exception = "KeyError"
    /\ arrival_profile_df = fs.arrival

\* column i holds the largest value of the hour's row
C7_IsMaximum(hour, i) ==
    LET t == fs.triage
        v(k) == t.cell[<<hour, t.columns[k]>>]
    IN  /\ ~IsNaN(v(i))
        /\ \A k \in 1 .. Len(t.columns) : IsNaN(v(k)) \/ ~Less(v(i), v(k))

\* cat is what follows the last '_' of label
C7_IsSuffix(label, cat) ==
    /\ \A k \in 1 .. Len(cat) : cat[k] # "_"
    /\ \/ label = cat
       \/ /\ Len(label) > Len(cat)
          /\ label[Len(label) - Len(cat)] = "_"
          /\ \A k \in 1 .. Len(cat) : label[Len(label) - Len(cat) + k] = cat[k]

\* C7: for an hour in the triage table whose row has a value, the reported
\* category is the token after the last '_' of the first column, in column
\* order, that holds the row's maximum; it depends on the table as loaded and
\* the hour alone (the row {cat_1: 0.1, cat_2: 0.6, cat_3: 0.3} of hour 14
\* gives "2").  The response fails only when the classifier does.
C7_ArgMaxFirstInColumnOrder ==
    ( /\ pc = "serving"
      /\ resp.op = "assess_risk"
      /\ triage_profile_df # None
      /\ streaming_model # None
      /\ resp.hour_of_day \in fs.triage.index
      /\ \E i \in 1 .. Len(fs.triage.columns) : C7_IsMaximum(resp.hour_of_day, i) )
        => \/ /\ ModelPredictionFailed(resp)
              /\ resp.exception = "ValueError"
           \/ /\ resp.status = 200
              /\ \E i \in 1 .. Len(fs.triage.columns) :
                    /\ C7_IsMaximum(resp.hour_of_day, i)
                    /\ \A j \in 1 .. (i - 1) : ~C7_IsMaximum(resp.hour_of_day, j)
                    /\ C7_IsSuffix(fs.triage.columns[i], resp.triage_category)
              /\ (fs.triage = WellFormedTriageTable /\ resp.hour_of_day = 14)
                    => resp.triage_category = <<"2">>

\* a successful lookup on a row where two columns tie for the maximum
C7_Witness ==
    /\ pc = "serving"
    /\ resp.op = "assess_risk"
    /\ resp.status = 200
    /\ \E i, j \in 1 .. Len(fs.triage.columns) :
          /\ i < j
          /\ C7_IsMaximum(resp.hour_of_day, i)
          /\ C7_IsMaximum(resp.hour_of_day, j)

\* C8: with the triage table and the classifier loaded, a lookup with
\* hour_of_day outside 0..23 fails with an error that is not the one a
\* classifier failure gets, and returns no category.
C8_OutOfRangeHourIsLookupError ==
    ( /\ pc = "serving"
      /\ resp.op = "assess_risk"
      /\ triage_profile_df # None
      /\ streaming_model # None
      /\ resp.hour_of_day \notin HoursOfDay )
        => (resp.status >= 400 /\ ~ModelPredictionFailed(resp))

\* a label "<prefix>_<N>" with N a number
C9_Conforms(label) ==
    \E k \in 2 .. (Len(label) - 1) :
        /\ label[k] = "_"
        /\ \A m \in (k + 1) .. Len(label) :
              label[m] \in {"0", "1", "2", "3", "4", "5", "6", "7", "8", "9"}

\* C9: when the label that wins the arg-max does not follow "<prefix>_<N>",
\* the lookup fails and reports no category.
C9_BadLabelFails ==
    ( /\ pc = "serving"
      /\ resp.op = "assess_risk"
      /\ triage_profile_df # None
      /\ streaming_model # None
      /\ resp.hour_of_day \in triage_profile_df.index
      /\ IdxMax(triage_profile_df, resp.hour_of_day) # <<>>
      /\ ~C9_Conforms(IdxMax(triage_profile_df, resp.hour_of_day)) )
        => resp.status >= 400

\* C10: a call that passes the gate and succeeds used the cell in row
\* current_hour - 1 of the column labelled with the current weekday's name,
\* whatever order the columns are stored in.
C10_ColumnChosenByWeekdayName ==
    (PredictCall /\ resp.status = 200)
        => LET name == WeekdayName(resp.weekday)
               cell == arrival_profile_df.cell[<<resp.current_hour - 1, name>>]
               total == TrueDiv(resp.arrivals_so_far, cell)
           IN  /\ name \in Range(arrival_profile_df.columns)
               /\ resp.estimated_total_for_today = Round(total)
               /\ resp.remaining_arrivals_prediction =
                      Round(Minus(total, resp.arrivals_so_far))
=============================================================================
